---- MODULE Spec2Model ----
(***************************************************************************)
(* A model of modl/classification.py: the FactoredLogistic estimator.     *)
(*                                                                         *)
(* SpecFit / FairSpecFit : the alternating mini-batch loop of fit.         *)
(* SpecPredict           : predict, predict_proba and score on a fitted    *)
(*                         estimator.                                      *)
(***************************************************************************)
EXTENDS Integers, Sequences, FiniteSets, TLC

(* ------------------------------ bounds --------------------------------- *)
MaxDatasets == 2
MaxSamples == 2
MaxBatchSize == 2
MaxIter == 6
MaxId == 1
MaxClasses == 2
MaxRows == 2
MaxScoreRows == 3
MaxThreads == 5
MaxPartRows == 3
MaxLabels == 3
MaxEpochSamples == 3
MaxShuffleRows == 3
MaxFits == 2
MaxEncRows == 2

(* ------------------------- program constants --------------------------- *)
\* EarlyStopping(patience=3)
patience == 3

\* model.fit(this_X, this_y_bin, epochs=30)
fallback_epochs == 30

VARIABLES
    \* ---- fit: configuration and data (fixed during a fit)
    n_samples_,           \* self.n_samples_: rows of every dataset, by position
    batch_size,           \* self.batch_size
    max_iter,             \* self.max_iter
    do_validation,        \* validation_data is not None
    early_stop,           \* self.early_stop
    \* ---- fit: the loop's state
    pc,                   \* "while" | "for" | "done" | "idle"
    i,                    \* index of the inner for loop
    n_epochs,             \* local n_epochs
    batches_list,         \* per dataset: the start offset its generator yields next
    stop_training,        \* local stop_training
    model_stop_training,  \* model.stop_training of every model
    es_wait,              \* EarlyStopping.wait of every tracker
    n_epochs_,            \* self.n_epochs_ (<<>> until assigned)
    \* ---- fit: history of the run
    ticks,                \* iterations of the while loop begun
    n_updates,            \* train_on_batch calls received by every model
    visited,              \* models trained in the current tick, in order
    boundary_trained,     \* per dataset: epoch boundaries followed by a train step
    signalled,            \* per dataset: its tracker has set stop_training once
    signalled_tick,       \* per dataset: its tracker did so in the current tick
    histories_,           \* self.histories_: per dataset, History.epoch
    history_begun,        \* History.on_train_begin has run on every recorder
    draws,                \* self.random_state.permutation calls: whose data
    last_boundary,        \* the calls of the latest epoch boundary, in order
    \* ---- the fitted estimator
    datasets_,            \* self.datasets_: the sorted ids seen by fit
    classes_list_,        \* self.classes_list_: per dataset, its sorted classes
    models_,              \* self.models_: per head, the width of its output
    \* ---- the numpy build
    legacy_bool_index,    \* a boolean index of the wrong length is accepted
    \* ---- the call in progress and its outcome
    op,                   \* "none" | "predict" | "predict_proba" | "score"
    X_datasets,           \* the dataset id column of the X passed in
    arg_dataset,          \* predict_proba's dataset: <<>> for None, else <<d>>
    y_correct,            \* score: per row, whether its head labels it as y does
    error,                \* "none", or the exception that ended the call
    used_model,           \* predict_proba: the model that made the result
    pred,                 \* predict: the array returned
    writers,              \* predict: per row, the branches that wrote pred[row]
    accs,                 \* score: the list accs, every entry correct / rows
    score_value,          \* score: the value returned, numerator / denominator
    score_y,              \* score: the labels y passed in, by row
    score_targets,        \* score: this_y_bin of every dataset evaluated
    \* ---- Projector.transform and the thread pool of mkl
    mkl_max_threads,      \* the width mkl.get_max_threads() reports
    projector_n_jobs,     \* self.n_jobs of the Projector
    proj_pc,              \* "idle" | "lstsq" | "restore"
    current_n_threads,    \* local current_n_threads (0 outside a call)
    proj_error,           \* "none", or the exception that ended the last call
    threads_before,       \* the width when the last call began (0: no call yet)
    \* ---- fit: the estimator's other hyperparameters and the arguments
    max_iter_is_number,   \* isinstance(self.max_iter, numbers.Number)
    random_state,         \* self.random_state: "None" | "seed" | "RandomState"
    latent_dim,           \* self.latent_dim: <<>> for None, else <<d>>
    fine_tune,            \* self.fine_tune
    dropout,              \* self.dropout, in tenths
    X_valid,              \* check_X_y accepts X, y
    fit_datasets,         \* the dataset id column of X, by row
    fit_y,                \* y, by row
    val_datasets,         \* the dataset id column of validation_data's X
    val_y,                \* validation_data's y, by row
    params_at_call,       \* the hyperparameters when fit was called
    \* ---- fit: what the stages before and after the loop build
    fit_error,            \* "none", or the exception that ended fit
    validated,            \* check_X_y has run
    tf_sessions,          \* calls of init_tensorflow
    X_list,               \* X_list: per dataset, its rows of X (by row number)
    y_bin_list,           \* y_bin_list: per dataset, its binarized labels
    layers_by_depth,      \* model.layers_by_depth of a head's model, from depth 0
    layer_trainable,      \* the layers whose trainable is False
    layer_rate,           \* the layers whose rate was set to 0
    lr_tenths,            \* per model: times its learning rate was cut to 0.1
    encoder_updates,      \* fine-tuning fits that moved the encoder's weights
    ft_fits,              \* the calls of model.fit of the fine-tuning stage
    y_bin_val_list        \* y_bin_val_list: per dataset, its validation labels

fit_vars == <<n_samples_, batch_size, max_iter, do_validation, early_stop,
              pc, i, n_epochs, batches_list, stop_training,
              model_stop_training, es_wait, n_epochs_,
              ticks, n_updates, visited, boundary_trained, signalled,
              signalled_tick>>

fitted_vars == <<datasets_, classes_list_, models_>>

call_vars == <<op, X_datasets, arg_dataset, y_correct, error, used_model,
               pred, writers, accs, score_value, score_y, score_targets>>

log_vars == <<histories_, history_begun, draws, last_boundary>>

\* what the loop of fit leaves alone, and what a call on the fitted
\* estimator leaves alone
proj_vars == <<mkl_max_threads, projector_n_jobs, proj_pc, current_n_threads,
               proj_error, threads_before>>

param_vars == <<max_iter_is_number, random_state, latent_dim, fine_tune,
                dropout, X_valid, fit_datasets, fit_y, params_at_call,
                val_datasets, val_y>>

stage_vars == <<fit_error, validated, tf_sessions,
                layers_by_depth, layer_trainable, layer_rate, lr_tenths,
                encoder_updates, ft_fits, y_bin_val_list>>

data_vars == <<X_list, y_bin_list>>

loop_frame == <<fitted_vars, legacy_bool_index, call_vars, proj_vars,
                param_vars, stage_vars>>

call_frame == <<fit_vars, log_vars, fitted_vars, legacy_bool_index, proj_vars,
                param_vars, stage_vars, data_vars>>

proj_frame == <<fit_vars, log_vars, fitted_vars, legacy_bool_index, call_vars,
                param_vars, stage_vars, data_vars>>

vars == <<fit_vars, log_vars, fitted_vars, legacy_bool_index, call_vars,
          proj_vars, param_vars, stage_vars, data_vars>>

(* ------------------------------ helpers -------------------------------- *)
Min2(a, b) == IF a <= b THEN a ELSE b

n_datasets == Len(n_samples_)

Idx == 1..n_datasets

\* np.min(n_epochs)
NpMin(s) == CHOOSE m \in {s[k] : k \in DOMAIN s} : \A k \in DOMAIN s : m <= s[k]

NpMax(s) == CHOOSE m \in {s[k] : k \in DOMAIN s} : \A k \in DOMAIN s : m >= s[k]

\* np.all(np.array([model.stop_training for model in self.models_]))
NpAll_any(flags) == \E k \in DOMAIN flags : flags[k]

NpAll(flags) == \A k \in DOMAIN flags : flags[k]

(* --------------------------- the loop of fit --------------------------- *)
\* while not stop_training and np.min(n_epochs) < self.max_iter
LoopCondition_max(stop, epochs, maxit) == ~stop /\ NpMax(epochs) < maxit

LoopCondition_le(stop, epochs, maxit) == ~stop /\ NpMin(epochs) <= maxit

LoopCondition(stop, epochs, maxit) == ~stop /\ NpMin(epochs) < maxit

\* next(batches_list[i]): a generator of gen_batches(n, batch_size) that is at
\* offset start raises StopIteration when start >= n, else yields
\* slice(start, min(start + batch_size, n)) and moves on
Exhausted(start, n) == start >= n

NextStart_all(start, n, bs) == n

NextStart(start, n, bs) == Min2(start + bs, n)

\* model.train_on_batch(this_X[batch], this_y_bin[batch]): runs for every
\* dataset of every tick, after an epoch boundary too
TrainOnBatch_skip(updates, k, boundary) ==
    IF boundary THEN updates ELSE [updates EXCEPT ![k] = @ + 1]

TrainOnBatch(updates, k, boundary) == [updates EXCEPT ![k] = @ + 1]

\* n_epochs[i] += 1
EpochIncrement_all(epochs, k) == [j \in DOMAIN epochs |-> epochs[j] + 1]

EpochIncrement(epochs, k) == [epochs EXCEPT ![k] = @ + 1]

\* for model in self.models_: model.stop_training = stop_training
ResetStopTraining_keep(flags, stop) == flags

ResetStopTraining(flags, stop) == [k \in DOMAIN flags |-> stop]

\* early_stoppings[i].on_epoch_end(n_epochs[i], epoch_logs) of keras
\* EarlyStopping(monitor='val_loss', min_delta=1e-3, patience=3). improved is
\* the outcome of monitor_op(val_loss - min_delta, best) on the validation
\* loss just evaluated: an input of the model. Without improvement the
\* tracker sets model.stop_training once wait >= patience, then counts.
EsStops(improved, wait) == ~improved /\ wait >= patience

\* self.wait = 0 on improvement, else self.wait += 1; only wait >= patience
\* is ever read, so the count is kept up to patience
EsWait(improved, wait) == IF improved THEN 0 ELSE Min2(wait + 1, patience)

\* stop_training = np.all(...) runs only when do_validation and early_stop
StopAfterTrain(stop, flags) ==
    IF do_validation /\ early_stop THEN NpAll(flags) ELSE stop

\* permutation = self.random_state.permutation(len(this_X)): one draw from
\* the random source, for the data of dataset k
Permutation_none(d, k) == d

Permutation(d, k) == Append(d, k)

\* the draws of the start-up loop, for the datasets 1..k in order
RECURSIVE StartupDraws(_)
StartupDraws(k) == IF k = 0 THEN <<>> ELSE Permutation(StartupDraws(k - 1), k)

\* the permutations of 1..n
Perms(n) ==
    {f \in [1..n -> 1..n] : \A a, b \in 1..n : f[a] = f[b] => a = b}

\* the values self.random_state.permutation(len(this_X)) may return for
\* dataset k; a run that carries no rows has nothing to reorder
ShuffleChoices(list, k) ==
    IF k \in DOMAIN list THEN Perms(Len(list[k])) ELSE {<<>>}

\* this_X[:] = this_X[permutation], this_y_bin[:] = this_y_bin[permutation]
ShuffleRows_alias(list, k, perm) ==
    IF k \in DOMAIN list
    THEN [list EXCEPT ![k] = [p \in DOMAIN @ |-> @[perm[1]]]]
    ELSE list

ShuffleRows(list, k, perm) ==
    IF k \in DOMAIN list
    THEN [list EXCEPT ![k] = [p \in DOMAIN @ |-> @[perm[p]]]]
    ELSE list

\* self.histories_[i].on_epoch_end(n_epochs[i], epoch_logs): keras History
\* appends the epoch to its list epoch
HistoryOnEpochEnd(h, k, epoch) == [h EXCEPT ![k] = Append(@, epoch)]

\* the calls of the except StopIteration branch, in the order of the code
EpochBoundarySteps(validation, stopping) ==
    <<"permutation", "shuffle", "gen_batches", "n_epochs", "evaluate">>
    \o (IF validation
        THEN <<"evaluate_val">>
             \o (IF stopping THEN <<"early_stopping">> ELSE <<>>)
             \o <<"history">>
        ELSE <<>>)
    \o <<"next">>

\* no call of predict, predict_proba or score is in progress
NoCall ==
    /\ op = "none"
    /\ X_datasets = <<>>
    /\ arg_dataset = <<>>
    /\ y_correct = <<>>
    /\ error = "none"
    /\ used_model = <<"none", 0>>
    /\ pred = <<>>
    /\ writers = <<>>
    /\ accs = <<>>
    /\ score_value = <<0, 1>>
    /\ score_y = <<>>
    /\ score_targets = <<>>

\* no Projector is at work
ProjIdle ==
    /\ mkl_max_threads = 1
    /\ projector_n_jobs = 1
    /\ proj_pc = "idle"
    /\ current_n_threads = 0
    /\ proj_error = "none"
    /\ threads_before = 0

\* the hyperparameters and arguments that the loop of fit, predict and
\* score do not read
ParamsIdle ==
    /\ max_iter_is_number = TRUE
    /\ random_state = "RandomState"
    /\ latent_dim = <<>>
    /\ fine_tune = FALSE
    /\ dropout = 0
    /\ X_valid = TRUE
    /\ fit_datasets = <<>>
    /\ fit_y = <<>>
    /\ params_at_call = <<>>
    /\ val_datasets = <<>>
    /\ val_y = <<>>

StagesIdle ==
    /\ fit_error = "none"
    /\ validated = FALSE
    /\ tf_sessions = 0
    /\ X_list = <<>>
    /\ y_bin_list = <<>>
    /\ layers_by_depth = <<>>
    /\ layer_trainable = {}
    /\ layer_rate = {}
    /\ lr_tenths = <<>>
    /\ encoder_updates = 0
    /\ ft_fits = <<>>
    /\ y_bin_val_list = <<>>

\* the loop of fit reads none of the fitted attributes used for routing
InitFit ==
    /\ ProjIdle
    /\ ParamsIdle
    /\ StagesIdle
    /\ datasets_ = <<>>
    /\ classes_list_ = <<>>
    /\ models_ = <<>>
    /\ legacy_bool_index = FALSE
    /\ NoCall
    /\ \E d \in 1..MaxDatasets : n_samples_ \in [1..d -> 1..MaxSamples]
    /\ batch_size \in 1..MaxBatchSize
    /\ max_iter \in 0..MaxIter
    /\ do_validation \in BOOLEAN
    /\ early_stop \in BOOLEAN
    /\ pc = "while"
    /\ i = 1
    /\ n_epochs = [k \in Idx |-> 0]
    /\ batches_list = [k \in Idx |-> 0]
    /\ stop_training = FALSE
    /\ model_stop_training = [k \in Idx |-> FALSE]
    /\ es_wait = [k \in Idx |-> 0]
    /\ n_epochs_ = <<>>
    /\ ticks = 0
    /\ n_updates = [k \in Idx |-> 0]
    /\ visited = <<>>
    /\ boundary_trained = [k \in Idx |-> 0]
    /\ signalled = [k \in Idx |-> FALSE]
    /\ signalled_tick = [k \in Idx |-> FALSE]
    /\ histories_ = [k \in Idx |-> <<>>]
    /\ history_begun = do_validation
    /\ draws = StartupDraws(n_datasets)
    /\ last_boundary = <<>>

\* the while condition holds: a tick begins
TickBegin ==
    /\ pc = "while"
    /\ LoopCondition(stop_training, n_epochs, max_iter)
    /\ model_stop_training' =
          IF do_validation
          THEN ResetStopTraining(model_stop_training, stop_training)
          ELSE model_stop_training
    /\ pc' = "for"
    /\ i' = 1
    /\ ticks' = ticks + 1
    /\ visited' = <<>>
    /\ signalled_tick' = [k \in Idx |-> FALSE]
    /\ UNCHANGED <<loop_frame, log_vars, data_vars>>
    /\ UNCHANGED <<n_samples_, batch_size, max_iter, do_validation, early_stop,
                   n_epochs, batches_list, stop_training, es_wait,
                   n_epochs_, n_updates, boundary_trained, signalled>>

\* the end of the body of the for loop, for dataset i
Advance ==
    /\ i' = IF i = n_datasets THEN 1 ELSE i + 1
    /\ pc' = IF i = n_datasets THEN "while" ELSE "for"

\* the body of the for loop when next(batches_list[i]) yields a batch
StepBatch ==
    /\ pc = "for"
    /\ ~Exhausted(batches_list[i], n_samples_[i])
    /\ batches_list' = [batches_list EXCEPT
                          ![i] = NextStart(@, n_samples_[i], batch_size)]
    /\ n_updates' = TrainOnBatch(n_updates, i, FALSE)
    /\ visited' = Append(visited, i)
    /\ stop_training' = StopAfterTrain(stop_training, model_stop_training)
    /\ Advance
    /\ UNCHANGED <<loop_frame, log_vars, data_vars>>
    /\ UNCHANGED <<n_samples_, batch_size, max_iter, do_validation, early_stop,
                   n_epochs, model_stop_training, es_wait, n_epochs_,
                   ticks, boundary_trained, signalled, signalled_tick>>

\* the body of the for loop when next(batches_list[i]) raises StopIteration:
\* the epoch boundary of dataset i, then the first batch of the new epoch
StepEpochBoundary ==
    /\ pc = "for"
    /\ Exhausted(batches_list[i], n_samples_[i])
    /\ batches_list' = [batches_list EXCEPT
                          ![i] = NextStart(0, n_samples_[i], batch_size)]
    /\ draws' = Permutation(draws, i)
    /\ \E perm \in ShuffleChoices(X_list, i) :
          /\ X_list' = ShuffleRows(X_list, i, perm)
          /\ y_bin_list' = ShuffleRows(y_bin_list, i, perm)
    /\ n_epochs' = EpochIncrement(n_epochs, i)
    /\ histories_' = IF do_validation
                     THEN HistoryOnEpochEnd(histories_, i, n_epochs'[i])
                     ELSE histories_
    /\ last_boundary' = EpochBoundarySteps(do_validation, early_stop)
    /\ IF do_validation /\ early_stop
       THEN \E improved \in BOOLEAN :
              /\ model_stop_training' =
                   [model_stop_training EXCEPT
                      ![i] = @ \/ EsStops(improved, es_wait[i])]
              /\ signalled' =
                   [signalled EXCEPT
                      ![i] = @ \/ EsStops(improved, es_wait[i])]
              /\ signalled_tick' =
                   [signalled_tick EXCEPT
                      ![i] = @ \/ EsStops(improved, es_wait[i])]
              /\ es_wait' = [es_wait EXCEPT ![i] = EsWait(improved, @)]
       ELSE UNCHANGED <<model_stop_training, signalled, signalled_tick,
                        es_wait>>
    /\ n_updates' = TrainOnBatch(n_updates, i, TRUE)
    /\ boundary_trained' =
          [boundary_trained EXCEPT
             ![i] = @ + (n_updates'[i] - n_updates[i])]
    /\ visited' = IF n_updates'[i] > n_updates[i]
                  THEN Append(visited, i) ELSE visited
    /\ stop_training' = StopAfterTrain(stop_training, model_stop_training')
    /\ Advance
    /\ UNCHANGED <<loop_frame, history_begun>>
    /\ UNCHANGED <<n_samples_, batch_size, max_iter, do_validation, early_stop,
                   n_epochs_, ticks>>

\* the while condition fails: self.n_epochs_ = n_epochs
LoopEnd ==
    /\ pc = "while"
    /\ ~LoopCondition(stop_training, n_epochs, max_iter)
    /\ n_epochs_' = n_epochs
    /\ pc' = "done"
    /\ UNCHANGED <<loop_frame, log_vars, data_vars>>
    /\ UNCHANGED <<n_samples_, batch_size, max_iter, do_validation, early_stop,
                   i, n_epochs, batches_list, stop_training,
                   model_stop_training, es_wait,
                   ticks, n_updates, visited, boundary_trained, signalled,
                   signalled_tick>>

NextFit == TickBegin \/ StepBatch \/ StepEpochBoundary \/ LoopEnd

SpecFit == InitFit /\ [][NextFit]_vars

\* the fits that no early stopping can end: validation data absent or
\* early_stop disabled
NoEarlyStopMode == ~do_validation \/ ~early_stop

InitFitNoEarlyStop == InitFit /\ NoEarlyStopMode

\* fit is sequential code: while a step of it is possible, it is taken
FairSpecFit ==
    InitFitNoEarlyStop /\ [][NextFit]_vars /\ WF_vars(NextFit)

(* ------------------------- claims about fit ---------------------------- *)
AllReached == \A k \in Idx : n_epochs[k] >= max_iter

\* C1: with validation data absent or early_stop disabled the loop of fit
\* terminates, it has stopped only with every epoch counter >= max_iter, and
\* it stops at the first end of a tick at which every counter is >= max_iter
\* (no further tick begins there).
C1_TerminatesAtMaxIter ==
    /\ <>(NoEarlyStopMode => pc = "done")
    /\ [](NoEarlyStopMode /\ pc = "done" => AllReached)
    /\ [][NoEarlyStopMode /\ pc = "while" /\ AllReached => pc' = "done"]_vars
    /\ [][NoEarlyStopMode /\ pc' = "done" => pc \in {"while", "done"}]_vars

C1_Witness ==
    /\ NoEarlyStopMode
    /\ pc = "done"
    /\ max_iter >= 2
    /\ n_datasets = 2
    /\ \E k \in Idx : n_epochs[k] > max_iter
    /\ \E k \in Idx : n_epochs[k] = max_iter

\* C2 (as claimed): with validation data and early_stop, the loop stops at
\* the end of the first tick by which every tracker has signalled stop, a
\* signal of an earlier tick still counting: no tick begins once every
\* tracker has signalled.
C2_SignalsPersist ==
    [][(pc = "while" /\ do_validation /\ early_stop
          /\ \A k \in Idx : signalled[k])
       => pc' = "done"]_vars

\* C2 (amended): with validation data and early_stop, the loop stops at the
\* end of the first tick in which every tracker signals stop at an epoch
\* boundary of its dataset inside that same tick; the flags are cleared when
\* a tick begins, so a signal of an earlier tick does not count.
C2_StopsWhenAllSignalInOneTick ==
    /\ []((pc \in {"while", "done"} /\ do_validation /\ early_stop
             /\ ticks >= 1)
          => (stop_training <=> \A k \in Idx : signalled_tick[k]))
    /\ [][(do_validation /\ early_stop /\ pc = "while")
            => (pc' = "done" <=> (stop_training \/ AllReached))]_vars

C2_Witness ==
    /\ pc = "done" /\ do_validation /\ early_stop
    /\ stop_training
    /\ n_datasets = 2
    /\ n_epochs[1] # n_epochs[2]
    /\ \E k \in Idx : n_epochs[k] < max_iter

\* batches per epoch of dataset k: ceil(n_samples / batch_size)
BatchesPerEpoch(k) == (n_samples_[k] + batch_size - 1) \div batch_size

MaxBatchesPerEpoch ==
    CHOOSE b \in {BatchesPerEpoch(k) : k \in Idx} :
        \A k \in Idx : BatchesPerEpoch(k) <= b

\* C3 (as claimed): without validation data and early stopping, fit ends
\* with n_epochs_[i] = max_iter for every dataset.
C3_AllEqualMaxIter ==
    (pc = "done" /\ ~do_validation /\ ~early_stop)
    => \A k \in Idx : n_epochs_[k] = max_iter

\* C3 (amended): without validation data and early stopping, fit ends with
\* n_epochs_[i] = floor(max_iter * Bmax / B_i) >= max_iter, B_i the batches
\* per epoch of dataset i and Bmax their maximum; so n_epochs_[i] = max_iter
\* for the datasets with the most batches per epoch.
C3_EpochsAtEnd ==
    (pc = "done" /\ ~do_validation /\ ~early_stop)
    => \A k \in Idx :
         /\ n_epochs_[k] >= max_iter
         /\ n_epochs_[k] = (max_iter * MaxBatchesPerEpoch) \div BatchesPerEpoch(k)
         /\ BatchesPerEpoch(k) = MaxBatchesPerEpoch => n_epochs_[k] = max_iter

C3_Witness ==
    /\ pc = "done" /\ ~do_validation /\ ~early_stop
    /\ max_iter = 3
    /\ n_datasets = 2
    /\ n_epochs_[1] = 3
    /\ n_epochs_[2] = 6

\* C4: in every tick every model gets exactly one train_on_batch, in
\* dataset order, also in a tick in which its dataset crosses an epoch
\* boundary; at the end of every tick all models have had the same number
\* of updates.
C4_OneUpdatePerTick ==
    /\ pc \in {"while", "done"} => \A k \in Idx : n_updates[k] = ticks
    /\ pc = "for" =>
         \A k \in Idx : n_updates[k] = IF k < i THEN ticks ELSE ticks - 1
    /\ visited = [k \in 1..Len(visited) |-> k]
    /\ pc = "for" => Len(visited) = i - 1
    /\ (pc = "while" /\ ticks > 0) => Len(visited) = n_datasets
    /\ \A k \in Idx : boundary_trained[k] = n_epochs[k]

C4_Witness ==
    /\ pc = "while"
    /\ n_datasets = 2
    /\ ticks >= 3
    /\ n_epochs[1] >= 1
    /\ n_epochs[2] > n_epochs[1]
    /\ n_updates[1] = n_updates[2]

HalfSamples(a, b) == n_datasets = 2 /\ 2 * n_samples_[a] = n_samples_[b]

\* C5 (as claimed): of two datasets, one with half the samples of the other,
\* the smaller's epoch counter is within 1 of twice the larger's after any
\* number of ticks, and above it once the larger has completed an epoch.
C5_RoughlyDouble ==
    \A a, b \in Idx :
        (HalfSamples(a, b) /\ pc = "while" /\ ticks >= 1)
        => /\ n_epochs[a] - 2 * n_epochs[b] \in {-1, 0, 1}
           /\ n_epochs[b] >= 1 => n_epochs[a] > n_epochs[b]

\* C5 (amended): of two datasets, one with half the samples of the other,
\* at the end of every tick the smaller's epoch counter is at least the
\* larger's; when the batch size divides the smaller's sample count (the
\* larger then has twice as many batches per epoch) it is twice the larger's
\* counter or twice that plus one.
C5_DoubleWhenBatchesDouble ==
    \A a, b \in Idx :
        (HalfSamples(a, b) /\ pc = "while")
        => /\ n_epochs[a] >= n_epochs[b]
           /\ n_samples_[a] % batch_size = 0
                => n_epochs[a] - 2 * n_epochs[b] \in {0, 1}

C5_Witness ==
    \E a, b \in Idx :
        /\ HalfSamples(a, b) /\ pc = "while"
        /\ n_samples_[a] % batch_size = 0
        /\ n_epochs[b] >= 2
        /\ n_epochs[a] = 2 * n_epochs[b] + 1

\* C18: the loop ends through early stopping (stop_training set) only with
\* validation data and early_stop, and only at the end of a tick in which
\* every tracker has signalled; it ends before every counter reaches max_iter
\* only through early stopping; a dataset whose tracker has signalled still
\* gets its update in every tick, so its updates equal the ticks run.
C18_AllMustSignal ==
    /\ [](stop_training =>
            (do_validation /\ early_stop
               /\ \A k \in Idx : signalled[k] /\ signalled_tick[k]))
    /\ [][(pc = "while" /\ pc' = "done" /\ ~AllReached) => stop_training]_vars
    /\ [][(pc = "for" /\ signalled[i]) => n_updates'[i] = n_updates[i] + 1]_vars
    /\ [](pc \in {"while", "done"} =>
            \A k \in Idx : signalled[k] => n_updates[k] = ticks)

\* tracker 1 signalled in an earlier tick, tracker 2 never did: the loop goes
\* on and dataset 1 has had the update of every tick
C18_Witness ==
    /\ pc = "while" /\ do_validation /\ early_stop
    /\ n_datasets = 2
    /\ signalled[1] /\ ~signalled_tick[1] /\ ~signalled[2]
    /\ ~stop_training /\ ~AllReached
    /\ n_updates[1] = ticks

\* the place of a call in the calls of an epoch boundary, 0 when absent
PlaceOf(steps, name) ==
    IF \E p \in DOMAIN steps : steps[p] = name
    THEN CHOOSE p \in DOMAIN steps : steps[p] = name
    ELSE 0

\* C19 (as claimed): at every epoch boundary, with or without validation
\* data, the calls are reshuffle, regenerate the batches, increment the
\* counter, evaluate, feed the history recorder, in this order; after fit
\* histories_[i] holds one entry per epoch counted in n_epochs_[i].
C19_HistoryEveryEpoch ==
    /\ last_boundary # <<>> =>
          /\ 0 < PlaceOf(last_boundary, "shuffle")
          /\ PlaceOf(last_boundary, "shuffle")
                < PlaceOf(last_boundary, "gen_batches")
          /\ PlaceOf(last_boundary, "gen_batches")
                < PlaceOf(last_boundary, "n_epochs")
          /\ PlaceOf(last_boundary, "n_epochs")
                < PlaceOf(last_boundary, "evaluate")
          /\ PlaceOf(last_boundary, "evaluate")
                < PlaceOf(last_boundary, "history")
    /\ pc = "done" =>
          \A k \in Idx : histories_[k] = [e \in 1..n_epochs_[k] |-> e]

\* tick t is an epoch boundary of dataset k: its generator is exhausted
\* after every BatchesPerEpoch(k) ticks
BoundaryAt(t, k) == t > 1 /\ (t - 1) % BatchesPerEpoch(k) = 0

CountOf(q, x) == Cardinality({p \in DOMAIN q : q[p] = x})

\* C20: the random source is drawn from once per dataset at start-up, in
\* dataset order, and once at every epoch boundary, by the dataset that
\* crosses it, at its turn in the tick; whether dataset i draws in tick t
\* depends on t, its sample count and the batch size only; every dataset has
\* drawn once more than it has counted epochs.
C20_DrawsInDatasetOrder ==
    /\ [](\A k \in Idx : Len(draws) >= k /\ draws[k] = k)
    /\ [](\A k \in Idx : CountOf(draws, k) = 1 + n_epochs[k])
    /\ [][pc = "for" =>
            draws' = IF BoundaryAt(ticks, i) THEN Append(draws, i)
                     ELSE draws]_vars
    /\ [][pc # "for" => draws' = draws]_vars

\* both datasets cross an epoch boundary in one tick: 1 draws before 2
C20_Witness ==
    /\ pc = "while"
    /\ n_datasets = 2
    /\ BatchesPerEpoch(1) # BatchesPerEpoch(2)
    /\ BoundaryAt(ticks, 1) /\ BoundaryAt(ticks, 2)
    /\ draws[Len(draws) - 1] = 1
    /\ draws[Len(draws)] = 2

\* the fits that only the epoch counters end, on datasets of up to
\* MaxEpochSamples rows
InitFitEpochs ==
    /\ ProjIdle
    /\ ParamsIdle
    /\ StagesIdle
    /\ datasets_ = <<>>
    /\ classes_list_ = <<>>
    /\ models_ = <<>>
    /\ legacy_bool_index = FALSE
    /\ NoCall
    /\ \E d \in 1..MaxDatasets : n_samples_ \in [1..d -> 1..MaxEpochSamples]
    /\ batch_size \in 1..MaxBatchSize
    /\ max_iter \in 0..MaxIter
    /\ do_validation \in BOOLEAN
    /\ early_stop \in BOOLEAN
    /\ NoEarlyStopMode
    /\ pc = "while"
    /\ i = 1
    /\ n_epochs = [k \in Idx |-> 0]
    /\ batches_list = [k \in Idx |-> 0]
    /\ stop_training = FALSE
    /\ model_stop_training = [k \in Idx |-> FALSE]
    /\ es_wait = [k \in Idx |-> 0]
    /\ n_epochs_ = <<>>
    /\ ticks = 0
    /\ n_updates = [k \in Idx |-> 0]
    /\ visited = <<>>
    /\ boundary_trained = [k \in Idx |-> 0]
    /\ signalled = [k \in Idx |-> FALSE]
    /\ signalled_tick = [k \in Idx |-> FALSE]
    /\ histories_ = [k \in Idx |-> <<>>]
    /\ history_begun = do_validation
    /\ draws = StartupDraws(n_datasets)
    /\ last_boundary = <<>>

SpecFitEpochs == InitFitEpochs /\ [][NextFit]_vars

\* the epoch counter of dataset k after t ticks
EpochsAfter(t, k) == IF t >= 1 THEN (t - 1) \div BatchesPerEpoch(k) ELSE 0

\* the loop has ended because no counter is below max_iter
EndedByEpochs == pc = "done" /\ ~stop_training

\* what C23 and its amendment share: the counter of dataset k after T >= 1
\* ticks is floor((T - 1) / B_k); a loop ended by the counters with
\* max_iter > 0 leaves min(n_epochs_) = max_iter; with max_iter = 0 no tick
\* runs and n_epochs_ is all zeros
EpochsFollowTicks ==
    /\ pc \in {"while", "done"} =>
          \A k \in Idx : n_epochs[k] = EpochsAfter(ticks, k)
    /\ pc = "for" =>
          \A k \in Idx :
              n_epochs[k] = EpochsAfter(IF k < i THEN ticks ELSE ticks - 1, k)
    /\ (EndedByEpochs /\ max_iter > 0) =>
          /\ NpMin(n_epochs_) = max_iter
          /\ ticks = max_iter * MaxBatchesPerEpoch + 1
    /\ (pc = "done" /\ max_iter = 0) =>
          /\ ticks = 0
          /\ \A k \in Idx : n_epochs_[k] = 0

\* C23 (as claimed): the epoch counter of dataset i after T >= 1 ticks is
\* floor((T - 1) / B_i), B_i = ceil(n_i / batch_size); when the loop ends by
\* the counters with max_iter > 0, min(n_epochs_) = max_iter and every
\* dataset with fewer batches per epoch than the maximum ends above max_iter;
\* with max_iter = 0 no tick runs and n_epochs_ is all zeros.
C23_FewerBatchesAbove ==
    /\ EpochsFollowTicks
    /\ (EndedByEpochs /\ max_iter > 0) =>
          \A k \in Idx :
              BatchesPerEpoch(k) < MaxBatchesPerEpoch => n_epochs_[k] > max_iter

\* C23 (amended): as claimed, but a dataset with fewer batches per epoch
\* than the maximum ends at or above max_iter, and above it exactly when
\* max_iter * (Bmax - B_i) >= B_i.
C23_FewerBatchesAtLeast ==
    /\ EpochsFollowTicks
    /\ (EndedByEpochs /\ max_iter > 0) =>
          \A k \in Idx :
              BatchesPerEpoch(k) < MaxBatchesPerEpoch =>
                 /\ n_epochs_[k] >= max_iter
                 /\ n_epochs_[k] > max_iter
                      <=> max_iter * (MaxBatchesPerEpoch - BatchesPerEpoch(k))
                             >= BatchesPerEpoch(k)

\* a dataset with two batches per epoch beside one with three, max_iter = 1:
\* both end at 1
C23_Witness ==
    /\ EndedByEpochs
    /\ max_iter = 1
    /\ n_datasets = 2
    /\ BatchesPerEpoch(1) = 2
    /\ BatchesPerEpoch(2) = 3
    /\ n_epochs_ = <<1, 1>>
    /\ ticks = 4

(* --------------- predict, predict_proba and score ---------------------- *)
\* the labels of the model: class c of the dataset with id d
ClassLabel(d, c) == 10 * (d + 1) + c

\* np.unique(datasets): the ids of S in ascending order
NpUnique(S) ==
    CHOOSE q \in [1..Cardinality(S) -> S] :
        \A a, b \in 1..Cardinality(S) : a < b => q[a] < q[b]

\* indices = datasets == this_dataset; X[indices], y[indices]: the rows of
\* dataset d, in the order of X
SelectRows_reversed(ids, d) ==
    LET rows == NpUnique({r \in DOMAIN ids : ids[r] = d})
    IN [p \in DOMAIN rows |-> rows[Len(rows) + 1 - p]]

SelectRows(ids, d) == NpUnique({r \in DOMAIN ids : ids[r] = d})

\* this_y = y[indices]
ThisY(ids, y, d) ==
    [p \in DOMAIN SelectRows(ids, d) |-> y[SelectRows(ids, d)[p]]]

\* LabelBinarizer().fit_transform(this_y) of scikit-learn: its classes are
\* the sorted labels of this_y; with three classes or more a row has one
\* column per class, 1 at the class of the row; with two classes it has a
\* single column, 1 for the second class; with one class a single column, 0
LabelBinarize(this_y) ==
    LET classes == NpUnique({this_y[p] : p \in DOMAIN this_y})
    IN [p \in DOMAIN this_y |->
          IF Len(classes) >= 3
          THEN [c \in DOMAIN classes |->
                  IF this_y[p] = classes[c] THEN 1 ELSE 0]
          ELSE IF Len(classes) = 2
               THEN <<(IF this_y[p] = classes[2] THEN 1 ELSE 0)>>
               ELSE <<0>>]

\* np.concatenate(self.classes_list_)
RECURSIVE NpConcatenate(_)
NpConcatenate(lists) ==
    IF lists = <<>> THEN <<>>
    ELSE Head(lists) \o NpConcatenate(Tail(lists))

\* self.classes_
classes_ == NpConcatenate(classes_list_)

FittedIds == {datasets_[p] : p \in DOMAIN datasets_}

\* the fitted attributes left by fit: datasets_ = np.unique(datasets), one
\* entry of classes_list_ and one head per dataset, in that order; the head
\* of a dataset has len(classes) outputs
InitFitted ==
    \E S \in SUBSET (0..MaxId) :
        /\ S # {}
        /\ Cardinality(S) <= MaxDatasets
        /\ datasets_ = NpUnique(S)
        /\ \E nc \in [1..Cardinality(S) -> 1..MaxClasses] :
              /\ classes_list_ =
                    [p \in 1..Cardinality(S) |->
                        [c \in 1..nc[p] |-> ClassLabel(datasets_[p], c)]]
              /\ models_ = nc

\* the loop of fit is not running
FitIdle ==
    /\ n_samples_ = <<>>
    /\ batch_size = 1
    /\ max_iter = 0
    /\ do_validation = FALSE
    /\ early_stop = FALSE
    /\ pc = "idle"
    /\ i = 1
    /\ n_epochs = <<>>
    /\ batches_list = <<>>
    /\ stop_training = FALSE
    /\ model_stop_training = <<>>
    /\ es_wait = <<>>
    /\ n_epochs_ = <<>>
    /\ ticks = 0
    /\ n_updates = <<>>
    /\ visited = <<>>
    /\ boundary_trained = <<>>
    /\ signalled = <<>>
    /\ signalled_tick = <<>>
    /\ histories_ = <<>>
    /\ history_begun = FALSE
    /\ draws = <<>>
    /\ last_boundary = <<>>

InitPredict ==
    /\ FitIdle
    /\ ProjIdle
    /\ ParamsIdle
    /\ StagesIdle
    /\ InitFitted
    /\ legacy_bool_index \in BOOLEAN
    /\ NoCall

\* predict_proba: the model that answers for dataset (<<>> is None).
\* np.where(self.datasets_ == dataset)[0][0] raises IndexError for an id that
\* is not in datasets_
PredictProbaModel_fallback(ds, dataset) ==
    IF dataset = <<>> \/ ~\E p \in DOMAIN ds : ds[p] = dataset[1]
    THEN <<"stacked", 0>>
    ELSE <<"head", CHOOSE p \in DOMAIN ds : ds[p] = dataset[1]>>

PredictProbaModel(ds, dataset) ==
    IF dataset = <<>> THEN <<"stacked", 0>>
    ELSE IF \E p \in DOMAIN ds : ds[p] = dataset[1]
         THEN <<"head", CHOOSE p \in DOMAIN ds : ds[p] = dataset[1]>>
         ELSE <<"IndexError", 0>>

\* np.logical_not(np.any(self.datasets_[:, np.newaxis] == datasets, axis=1)):
\* the comparison has one line per fitted dataset and one column per row of X;
\* any over axis 1 leaves one entry per fitted dataset, true when some row
\* has its id
NotAnyAxis1(ds, X) ==
    [p \in DOMAIN ds |-> ~\E k \in DOMAIN X : ds[p] = X[k]]

\* X[indices] and pred[indices] for a boolean index of len(indices) entries
\* on an array of n rows: the rows selected, or IndexError. numpy 1.13 and
\* later refuse an index of another length; older builds warn and take the
\* positions of its true entries, refusing those past the end
BoolIndexError(indices, n) ==
    IF legacy_bool_index
    THEN \E p \in DOMAIN indices : indices[p] /\ p > n
    ELSE Len(indices) # n

BoolIndexRows(indices) == {p \in DOMAIN indices : indices[p]}

\* the state of a call of predict: the array pred, who wrote each row of it,
\* and the exception raised if any
WriteRows(st, rows, label, writer) ==
    [st EXCEPT
        !.pred = [k \in DOMAIN st.pred |->
                     IF k \in rows THEN label ELSE st.pred[k]],
        !.writers = [k \in DOMAIN st.writers |->
                        IF k \in rows THEN Append(st.writers[k], writer)
                        ELSE st.writers[k]]]

\* lines 481-486: the rows sent to the stacked model; out_stacked is the
\* argmax of the stacked model on them
StackedBranch(st, X, out_stacked) ==
    LET indices == NotAnyAxis1(datasets_, X) IN
    IF BoolIndexRows(indices) = {} THEN st
    ELSE IF BoolIndexError(indices, Len(X))
         THEN [st EXCEPT !.error = "IndexError"]
         ELSE WriteRows(st, BoolIndexRows(indices), classes_[out_stacked],
                        PredictProbaModel(datasets_, <<>>))

\* lines 487-493: the rows of every fitted dataset, from position p on;
\* out_head[p] is the argmax of head p on the rows of its dataset.
\* self.classes_list_[this_dataset] indexes the list by the dataset's id
RECURSIVE HeadBranches(_, _, _, _)
HeadBranches(st, X, out_head, p) ==
    IF p > Len(datasets_) \/ st.error # "none" THEN st
    ELSE LET this_dataset == datasets_[p]
             rows == {k \in DOMAIN X : X[k] = this_dataset}
             model == PredictProbaModel(datasets_, <<this_dataset>>)
         IN
         IF rows = {} THEN HeadBranches(st, X, out_head, p + 1)
         ELSE IF this_dataset + 1 > Len(classes_list_)
              THEN [st EXCEPT !.error = "IndexError"]
              ELSE LET these_classes == classes_list_[this_dataset + 1]
                       argmax == out_head[model[2]]
                   IN
                   IF model[1] = "IndexError" \/ argmax > Len(these_classes)
                   THEN [st EXCEPT !.error = "IndexError"]
                   ELSE HeadBranches(
                            WriteRows(st, rows, these_classes[argmax], model),
                            X, out_head, p + 1)

\* predict(X): pred = np.zeros(X.shape[0]), then the two branches
PredictResult(X, out_stacked, out_head) ==
    HeadBranches(
        StackedBranch([pred |-> [k \in DOMAIN X |-> 0],
                       writers |-> [k \in DOMAIN X |-> <<>>],
                       error |-> "none"],
                      X, out_stacked),
        X, out_head, 1)

\* the argmax of every head on the rows of its dataset: an index of one of
\* its outputs
HeadOutputs ==
    {f \in [DOMAIN models_ -> 1..MaxClasses] :
        \A p \in DOMAIN models_ : f[p] <= models_[p]}

\* the dataset ids a caller passes: those fit may have seen and one more
InputIds == 0..(MaxId + 1)

\* predict(X) for a valid X of 1..MaxRows rows; the rows of one dataset
\* have equal features
Predict ==
    /\ op = "none"
    /\ \E n \in 1..MaxRows :
       \E X \in [1..n -> InputIds] :
       \E out_stacked \in 1..Len(classes_) :
       \E out_head \in HeadOutputs :
          LET r == PredictResult(X, out_stacked, out_head) IN
          /\ op' = "predict"
          /\ X_datasets' = X
          /\ error' = r.error
          /\ pred' = IF r.error = "none" THEN r.pred ELSE <<>>
          /\ writers' = r.writers
    /\ UNCHANGED <<arg_dataset, y_correct, used_model, accs, score_value,
                   score_y, score_targets>>
    /\ UNCHANGED call_frame

\* predict_proba(X, dataset): dataset None or any id
PredictProba ==
    /\ op = "none"
    /\ \E dataset \in {<<>>} \cup {<<d>> : d \in InputIds} :
          LET model == PredictProbaModel(datasets_, dataset) IN
          /\ op' = "predict_proba"
          /\ arg_dataset' = dataset
          /\ error' = IF model[1] = "IndexError" THEN "IndexError" ELSE "none"
          /\ used_model' = IF model[1] = "IndexError" THEN <<"none", 0>>
                           ELSE model
    /\ UNCHANGED <<X_datasets, y_correct, pred, writers, accs, score_value,
                   score_y, score_targets>>
    /\ UNCHANGED call_frame

\* rationals as <<numerator, denominator>>
RatAdd(a, b) == <<a[1] * b[2] + b[1] * a[2], a[2] * b[2]>>

RECURSIVE RatSum(_)
RatSum(q) == IF q = <<>> THEN <<0, 1>> ELSE RatAdd(Head(q), RatSum(Tail(q)))

RECURSIVE SumOf(_, _)
SumOf(q, c) == IF q = <<>> THEN 0 ELSE Head(q)[c] + SumOf(Tail(q), c)

\* np.mean(np.array(accs))
NpMean_weighted(q) == <<SumOf(q, 1), SumOf(q, 2)>>

NpMean(q) == <<RatSum(q)[1], RatSum(q)[2] * Len(q)>>

\* the loop of score, from position p on: the rows of dataset p, their
\* labels binarized (LabelBinarizer refuses an empty y with ValueError), and
\* the accuracy model.evaluate reports on them: the share of the rows that
\* head p labels as y does
RECURSIVE ScoreLoop(_, _, _, _, _)
ScoreLoop(st, X, y, correct, p) ==
    IF p > Len(datasets_) \/ st.error # "none" THEN st
    ELSE LET rows == {k \in DOMAIN X : X[k] = datasets_[p]}
             acc == <<Cardinality({k \in rows : correct[k]}),
                      Cardinality(rows)>>
             this_y_bin == LabelBinarize(ThisY(X, y, datasets_[p]))
         IN
         IF rows = {} THEN [st EXCEPT !.error = "ValueError"]
         ELSE ScoreLoop([st EXCEPT !.accs = Append(@, acc),
                                   !.targets = Append(@, this_y_bin)],
                        X, y, correct, p + 1)

\* score(X, y): the whole call, on the rows X with the labels y, correct
\* telling for every row whether its head labels it as y does
ScoreCall(X, y, correct) ==
    LET r == ScoreLoop([accs |-> <<>>, targets |-> <<>>, error |-> "none"],
                       X, y, correct, 1)
    IN
    /\ op' = "score"
    /\ X_datasets' = X
    /\ score_y' = y
    /\ y_correct' = correct
    /\ error' = r.error
    /\ accs' = r.accs
    /\ score_targets' = r.targets
    /\ score_value' = IF r.error = "none" THEN NpMean(r.accs) ELSE <<0, 1>>
    /\ UNCHANGED <<arg_dataset, used_model, pred, writers>>
    /\ UNCHANGED call_frame

\* score(X, y) for a valid X, y of 1..MaxScoreRows rows, every row labelled
\* with the first class of its dataset
Score ==
    /\ op = "none"
    /\ \E n \in 1..MaxScoreRows :
       \E X \in [1..n -> 0..MaxId] :
       \E correct \in [1..n -> BOOLEAN] :
          ScoreCall(X, [k \in 1..n |-> ClassLabel(X[k], 1)], correct)

\* the call is over: the caller may call again
Return ==
    /\ op # "none"
    /\ op' = "none"
    /\ X_datasets' = <<>>
    /\ arg_dataset' = <<>>
    /\ y_correct' = <<>>
    /\ error' = "none"
    /\ used_model' = <<"none", 0>>
    /\ pred' = <<>>
    /\ writers' = <<>>
    /\ accs' = <<>>
    /\ score_value' = <<0, 1>>
    /\ score_y' = <<>>
    /\ score_targets' = <<>>
    /\ UNCHANGED call_frame

NextPredict == Predict \/ PredictProba \/ Score \/ Return

SpecPredict == InitPredict /\ [][NextPredict]_vars

(* ------------- claims about predict, predict_proba, score -------------- *)
Range(q) == {q[k] : k \in DOMAIN q}

Rows == DOMAIN X_datasets

\* the position in datasets_ of a fitted id
PositionOf(d) == CHOOSE p \in DOMAIN datasets_ : datasets_[p] = d

\* C6 (as claimed): predict sends every row whose dataset id is not fitted
\* to the stacked model and gives it a label of classes_, whatever the other
\* rows are.
C6_UnknownToStacked ==
    op = "predict" =>
        \A k \in Rows :
            X_datasets[k] \notin FittedIds =>
                /\ error = "none"
                /\ writers[k] = <<(<<"stacked", 0>>)>>
                /\ pred[k] \in Range(classes_)

\* C7 (as claimed), on the inputs that hold every fitted id and no other:
\* predict sends every row to the head of its dataset and takes its label
\* from the classes recorded for that dataset, for any fitted ids.
C7_KnownToOwnHead ==
    (op = "predict" /\ Range(X_datasets) = FittedIds) =>
        \A k \in Rows :
            /\ error = "none"
            /\ writers[k] = <<(<<"head", PositionOf(X_datasets[k])>>)>>
            /\ pred[k] \in Range(classes_list_[PositionOf(X_datasets[k])])

\* C8 (as claimed): predict returns one label per row: every row of the
\* result is written exactly once.
C8_OneLabelPerRow ==
    op = "predict" =>
        /\ error = "none"
        /\ Len(pred) = Len(X_datasets)
        /\ \A k \in Rows : Len(writers[k]) = 1

\* C9: predict_proba(X, dataset=d) with d not a fitted id ends in an error,
\* no model answers it, and the call leaves datasets_, classes_list_ and
\* models_ as they were.
C9_UnknownDatasetFails ==
    /\ [](op = "predict_proba" /\ arg_dataset # <<>>
             /\ arg_dataset[1] \notin FittedIds
          => error = "IndexError" /\ used_model = <<"none", 0>>)
    /\ [](op = "predict_proba" /\ arg_dataset # <<>>
             /\ arg_dataset[1] \in FittedIds
          => error = "none"
             /\ used_model = <<"head", PositionOf(arg_dataset[1])>>)
    /\ [][op' = "predict_proba" => UNCHANGED fitted_vars]_vars

C9_Witness ==
    /\ op = "predict_proba"
    /\ arg_dataset # <<>>
    /\ arg_dataset[1] \notin FittedIds
    /\ error = "IndexError"
    /\ Len(datasets_) = 2

\* the rows of X that belong to the dataset at position p, and those of
\* them that its head labels correctly
RowsOf(p) == {k \in Rows : X_datasets[k] = datasets_[p]}

CorrectOf(p) == {k \in RowsOf(p) : y_correct[k]}

RECURSIVE ProductOfRows(_)
ProductOfRows(P) ==
    IF P = {} THEN 1
    ELSE LET p == CHOOSE x \in P : TRUE
         IN Cardinality(RowsOf(p)) * ProductOfRows(P \ {p})

RECURSIVE WeightedCorrect(_)
WeightedCorrect(P) ==
    IF P = {} THEN 0
    ELSE LET p == CHOOSE x \in P : TRUE
         IN Cardinality(CorrectOf(p))
                * ProductOfRows(DOMAIN datasets_ \ {p})
            + WeightedCorrect(P \ {p})

\* C10: the value score returns is (1/D) * sum over the D fitted datasets of
\* correct_i / rows_i: one accuracy per fitted dataset, each of weight 1/D.
C10_UnweightedMean ==
    (op = "score" /\ error = "none") =>
        /\ Len(accs) = Len(datasets_)
        /\ \A p \in DOMAIN datasets_ :
              accs[p] = <<Cardinality(CorrectOf(p)), Cardinality(RowsOf(p))>>
        /\ score_value[2] > 0
        /\ score_value[1] * Len(datasets_) * ProductOfRows(DOMAIN datasets_)
              = score_value[2] * WeightedCorrect(DOMAIN datasets_)

\* two datasets with 1 and 2 scored rows and accuracies 1 and 0: the score
\* is 1/2, not the 1/3 of the rows labelled correctly
C10_Witness ==
    /\ op = "score" /\ error = "none"
    /\ Len(datasets_) = 2
    /\ Cardinality(RowsOf(1)) = 1 /\ Cardinality(CorrectOf(1)) = 1
    /\ Cardinality(RowsOf(2)) = 2 /\ Cardinality(CorrectOf(2)) = 0
    /\ score_value[1] * 2 = score_value[2]

(* -------------------------- the stages of fit -------------------------- *)
\* get_params(): the hyperparameters of the estimator
get_params ==
    <<max_iter_is_number, max_iter, batch_size, early_stop, latent_dim,
      fine_tune, dropout, random_state>>

\* the loop of fit has not begun
LoopIdle ==
    /\ n_samples_ = <<>>
    /\ i = 1
    /\ n_epochs = <<>>
    /\ batches_list = <<>>
    /\ stop_training = FALSE
    /\ model_stop_training = <<>>
    /\ es_wait = <<>>
    /\ n_epochs_ = <<>>
    /\ ticks = 0
    /\ n_updates = <<>>
    /\ visited = <<>>
    /\ boundary_trained = <<>>
    /\ signalled = <<>>
    /\ signalled_tick = <<>>
    /\ histories_ = <<>>
    /\ history_begun = FALSE
    /\ draws = <<>>
    /\ last_boundary = <<>>

\* fit is called on an estimator that was never fitted
CallStart ==
    /\ ProjIdle
    /\ NoCall
    /\ StagesIdle
    /\ LoopIdle
    /\ legacy_bool_index = FALSE
    /\ datasets_ = <<>>
    /\ classes_list_ = <<>>
    /\ models_ = <<>>
    /\ pc = "call"

\* self.max_iter: not a number, or a number from -1 on
MaxIterInputs == {<<FALSE, 0>>} \cup {<<TRUE, v>> : v \in (-1)..MaxIter}

\* fit(X, y, validation_data) with any hyperparameters, on an X that holds
\* one row of each of the datasets 0..d-1, of one class each
InitCall ==
    /\ CallStart
    /\ \E m \in MaxIterInputs : max_iter_is_number = m[1] /\ max_iter = m[2]
    /\ batch_size = 1
    /\ do_validation \in BOOLEAN
    /\ early_stop \in BOOLEAN
    /\ fine_tune \in BOOLEAN
    /\ latent_dim \in {<<>>, <<1>>}
    /\ dropout \in {0, 5}
    /\ random_state \in {"None", "seed"}
    /\ X_valid \in BOOLEAN
    /\ \E d \in 1..MaxDatasets :
          /\ fit_datasets = [r \in 1..d |-> r - 1]
          /\ fit_y = [r \in 1..d |-> ClassLabel(r - 1, 1)]
    /\ params_at_call = get_params
    /\ val_datasets = IF do_validation THEN fit_datasets ELSE <<>>
    /\ val_y = IF do_validation THEN fit_y ELSE <<>>

\* fit(X, y) on any rows of X and labels of y
InitPartition ==
    /\ CallStart
    /\ max_iter_is_number = TRUE
    /\ max_iter = 1
    /\ batch_size = 1
    /\ do_validation = FALSE
    /\ early_stop = FALSE
    /\ fine_tune = FALSE
    /\ latent_dim \in {<<>>, <<1>>}
    /\ dropout = 0
    /\ random_state = "seed"
    /\ X_valid = TRUE
    /\ \E n \in 1..MaxPartRows :
          /\ fit_datasets \in [1..n -> 0..MaxId]
          /\ fit_y \in [1..n -> 1..MaxLabels]
    /\ params_at_call = get_params
    /\ val_datasets = <<>>
    /\ val_y = <<>>

\* not isinstance(self.max_iter, numbers.Number) or self.max_iter < 0
InvalidMaxIter_numeric(is_number, value) == ~is_number

InvalidMaxIter(is_number, value) == ~is_number \/ value < 0

\* the layers of a head's model by depth, from its output (depth 0) to its
\* input: Activation('softmax'), the head's Dense, the Dropout if dropout > 0,
\* the Dense 'encoded' of make_factored_model, the Input
LayersByDepth(latent, rate) ==
    <<"softmax", "supervised">>
    \o (IF rate > 0 THEN <<"dropout">> ELSE <<>>)
    \o (IF latent # <<>> THEN <<"encoded">> ELSE <<>>)
    \o <<"input">>

\* make_simple_model is followed by self.fine_tune = False
BuildFineTune_keep(latent, ft) == ft

BuildFineTune(latent, ft) == IF latent = <<>> THEN FALSE ELSE ft

\* what the stages before the loop leave alone
outside_fit == <<legacy_bool_index, call_vars, proj_vars>>

config_vars == <<batch_size, max_iter, do_validation, early_stop>>

loop_locals == <<i, n_epochs, batches_list, stop_training,
                 model_stop_training, es_wait, n_epochs_, ticks, n_updates,
                 visited, boundary_trained, signalled, signalled_tick>>

stage_rest == <<layer_trainable, layer_rate, encoder_updates, ft_fits>>

\* the hyperparameters and arguments but self.random_state
args_rest == <<max_iter_is_number, latent_dim, fine_tune, dropout, X_valid,
               fit_datasets, fit_y, params_at_call, val_datasets, val_y>>

\* if not isinstance(self.max_iter, numbers.Number) or self.max_iter < 0:
\*     raise ValueError(...)
FitCheckMaxIter ==
    /\ pc = "call"
    /\ IF InvalidMaxIter(max_iter_is_number, max_iter)
       THEN pc' = "raised" /\ fit_error' = "ValueError: max_iter"
       ELSE pc' = "check_X_y" /\ fit_error' = fit_error
    /\ UNCHANGED <<outside_fit, config_vars, loop_locals, n_samples_, log_vars,
                   fitted_vars, param_vars, validated, tf_sessions,
                   layers_by_depth, lr_tenths, stage_rest, data_vars,
                   y_bin_val_list>>

\* X, y = check_X_y(X, y, ...); datasets = X[:, -1].astype('int')
FitCheckXY ==
    /\ pc = "check_X_y"
    /\ validated' = TRUE
    /\ IF X_valid
       THEN pc' = "check_random_state" /\ fit_error' = fit_error
       ELSE pc' = "raised" /\ fit_error' = "ValueError: check_X_y"
    /\ UNCHANGED <<outside_fit, config_vars, loop_locals, n_samples_, log_vars,
                   fitted_vars, param_vars, tf_sessions,
                   layers_by_depth, lr_tenths, stage_rest, data_vars,
                   y_bin_val_list>>

\* self.random_state = check_random_state(self.random_state), then the
\* validation data is read when given
FitRandomState ==
    /\ pc = "check_random_state"
    /\ random_state' = "RandomState"
    /\ pc' = "partition"
    /\ UNCHANGED args_rest
    /\ UNCHANGED <<outside_fit, config_vars, loop_locals, n_samples_, log_vars,
                   fitted_vars, fit_error, validated, tf_sessions,
                   layers_by_depth, lr_tenths, stage_rest, data_vars,
                   y_bin_val_list>>

\* self.datasets_ = np.unique(datasets), then for every dataset its rows,
\* its classes and its binarized labels and, with validation data, the
\* binarized labels of its validation rows, by fit_transform of the same
\* binarizer, which raises ValueError on a dataset without validation rows;
\* self.classes_ is the concatenation of the classes
FitPartition ==
    /\ pc = "partition"
    /\ LET ds == NpUnique({fit_datasets[r] : r \in DOMAIN fit_datasets})
           failing == {k \in DOMAIN ds :
                          do_validation /\ SelectRows(val_datasets, ds[k]) = <<>>}
           first == CHOOSE k \in failing : \A j \in failing : k <= j
           appended == IF failing = {} THEN Len(ds) ELSE first
           appended_val == IF ~do_validation THEN 0
                           ELSE IF failing = {} THEN Len(ds) ELSE first - 1
       IN /\ datasets_' = ds
          /\ X_list' = [k \in 1..appended |-> SelectRows(fit_datasets, ds[k])]
          /\ classes_list_' =
                [k \in 1..appended |->
                    LET this_y == ThisY(fit_datasets, fit_y, ds[k])
                    IN NpUnique({this_y[p] : p \in DOMAIN this_y})]
          /\ y_bin_list' =
                [k \in 1..appended |->
                    LabelBinarize(ThisY(fit_datasets, fit_y, ds[k]))]
          /\ y_bin_val_list' =
                [k \in 1..appended_val |->
                    LabelBinarize(ThisY(val_datasets, val_y, ds[k]))]
          /\ IF failing = {}
             THEN pc' = "build" /\ fit_error' = fit_error
             ELSE pc' = "raised" /\ fit_error' = "ValueError: y has 0 samples"
    /\ UNCHANGED <<outside_fit, config_vars, loop_locals, n_samples_, log_vars,
                   models_, param_vars, validated, tf_sessions,
                   layers_by_depth, lr_tenths, stage_rest>>

\* init_tensorflow, make_factored_model or make_simple_model (a head of
\* len(classes) outputs per dataset), self.fine_tune = False in simple mode,
\* self.n_samples_, the trackers and the History recorders
FitBuildModels ==
    /\ pc = "build"
    /\ tf_sessions' = tf_sessions + 1
    /\ models_' = [k \in DOMAIN classes_list_ |-> Len(classes_list_[k])]
    /\ layers_by_depth' = LayersByDepth(latent_dim, dropout)
    /\ lr_tenths' = [k \in DOMAIN classes_list_ |-> 0]
    /\ fine_tune' = BuildFineTune(latent_dim, fine_tune)
    /\ n_samples_' = [k \in DOMAIN X_list |-> Len(X_list[k])]
    /\ histories_' = [k \in DOMAIN classes_list_ |-> <<>>]
    /\ pc' = "shuffle"
    /\ UNCHANGED <<max_iter_is_number, latent_dim, random_state, dropout,
                   X_valid, fit_datasets, fit_y, params_at_call,
                   val_datasets, val_y>>
    /\ UNCHANGED <<outside_fit, config_vars, loop_locals, history_begun, draws,
                   last_boundary, datasets_, classes_list_, fit_error,
                   validated, stage_rest, data_vars, y_bin_val_list>>

\* lines 373-388: the start-up shuffle of every dataset, its batch
\* generator, the counters, on_train_begin of the recorders and trackers
FitShuffle ==
    /\ pc = "shuffle"
    /\ draws' = StartupDraws(n_datasets)
    /\ \E perms \in {f \in [Idx -> UNION {Perms(n_samples_[k]) : k \in Idx}] :
                        \A k \in Idx : f[k] \in Perms(n_samples_[k])} :
          /\ X_list' = [k \in Idx |->
                          [p \in DOMAIN X_list[k] |-> X_list[k][perms[k][p]]]]
          /\ y_bin_list' =
                [k \in Idx |->
                    [p \in DOMAIN y_bin_list[k] |->
                        y_bin_list[k][perms[k][p]]]]
    /\ n_epochs' = [k \in Idx |-> 0]
    /\ batches_list' = [k \in Idx |-> 0]
    /\ stop_training' = FALSE
    /\ history_begun' = do_validation
    /\ model_stop_training' = [k \in Idx |-> FALSE]
    /\ es_wait' = [k \in Idx |-> 0]
    /\ n_updates' = [k \in Idx |-> 0]
    /\ boundary_trained' = [k \in Idx |-> 0]
    /\ signalled' = [k \in Idx |-> FALSE]
    /\ signalled_tick' = [k \in Idx |-> FALSE]
    /\ pc' = "while"
    /\ UNCHANGED <<outside_fit, config_vars, i, n_epochs_, ticks, visited,
                   n_samples_, histories_, last_boundary, fitted_vars,
                   param_vars, stage_vars>>

\* the callbacks of the fine-tuning fit: a new EarlyStopping when there is
\* validation data and self.early_stop, None when there is validation data
\* only; without validation data model.fit gets no callbacks
FineTuneCallbacks_always(validation, stopping) ==
    IF validation THEN "EarlyStopping" ELSE "None"

FineTuneCallbacks(validation, stopping) ==
    IF validation /\ stopping THEN "EarlyStopping" ELSE "None"

\* epochs=self.max_iter with validation data, epochs=30 without
FineTuneEpochs(validation, maxit) ==
    IF validation THEN maxit ELSE fallback_epochs

\* the epochs a keras model.fit(..., epochs=epochs) may run once e epochs are
\* done, under an EarlyStopping whose counter is wait: the tracker ends the
\* run after an epoch without improvement once wait >= patience
RECURSIVE FitEpochs(_, _, _)
FitEpochs(e, wait, epochs) ==
    IF e >= epochs THEN {e}
    ELSE UNION {IF EsStops(improved, wait) THEN {e + 1}
                ELSE FitEpochs(e + 1, EsWait(improved, wait), epochs) :
                improved \in BOOLEAN}

PossibleEpochs(epochs, callbacks) ==
    IF callbacks = "EarlyStopping" THEN FitEpochs(0, 0, epochs) ELSE {epochs}

\* if self.fine_tune:
FineTuneTest ==
    /\ pc = "done"
    /\ pc' = IF fine_tune THEN "fine_tune" ELSE "returned"
    /\ i' = 1
    /\ UNCHANGED <<outside_fit, config_vars, n_samples_, n_epochs, batches_list,
                   stop_training, model_stop_training, es_wait, n_epochs_,
                   ticks, n_updates, visited, boundary_trained, signalled,
                   signalled_tick, log_vars, fitted_vars, param_vars,
                   stage_vars, data_vars>>

\* the body of the fine-tuning loop for model i: the learning rate is cut
\* to a tenth, the layer at depth 3 gets trainable = False, the layer at
\* depth 2 gets rate = 0, and model.fit retrains the model; its training
\* moves the weights of every layer of the model that is trainable
FineTuneHead ==
    /\ pc = "fine_tune"
    /\ lr_tenths' = [lr_tenths EXCEPT ![i] = @ + 1]
    /\ IF Len(layers_by_depth) < 4
       THEN /\ pc' = "raised"
            /\ fit_error' = "KeyError"
            /\ i' = i
            /\ UNCHANGED <<layer_trainable, layer_rate, encoder_updates,
                           ft_fits>>
       ELSE /\ layer_trainable' = layer_trainable \cup {layers_by_depth[4]}
            /\ layer_rate' = layer_rate \cup {layers_by_depth[3]}
            /\ LET callbacks == FineTuneCallbacks(do_validation, early_stop)
                   epochs == FineTuneEpochs(do_validation, max_iter)
               IN \E e \in PossibleEpochs(epochs, callbacks) :
                     /\ ft_fits' = Append(ft_fits,
                                          [model |-> i,
                                           validation |-> do_validation,
                                           callbacks |-> callbacks,
                                           epochs |-> epochs,
                                           epochs_run |-> e])
                     /\ encoder_updates' =
                           IF /\ e > 0
                              /\ \E d \in DOMAIN layers_by_depth :
                                    layers_by_depth[d] = "encoded"
                              /\ "encoded" \notin layer_trainable'
                           THEN encoder_updates + 1
                           ELSE encoder_updates
            /\ fit_error' = fit_error
            /\ i' = IF i = n_datasets THEN 1 ELSE i + 1
            /\ pc' = IF i = n_datasets THEN "returned" ELSE "fine_tune"
    /\ UNCHANGED <<outside_fit, config_vars, n_samples_, n_epochs, batches_list,
                   stop_training, model_stop_training, es_wait, n_epochs_,
                   ticks, n_updates, visited, boundary_trained, signalled,
                   signalled_tick, log_vars, fitted_vars, param_vars,
                   validated, tf_sessions, layers_by_depth, data_vars,
                   y_bin_val_list>>

NextStages ==
    \/ FitCheckMaxIter
    \/ FitCheckXY
    \/ FitRandomState
    \/ FitPartition
    \/ FitBuildModels
    \/ FitShuffle

NextFineTune == FineTuneTest \/ FineTuneHead

NextCall == NextStages \/ NextFit \/ NextFineTune

\* a whole call of fit
SpecFitCall == InitCall /\ [][NextCall]_vars

\* the stages of fit up to the beginning of its loop
SpecPartition == InitPartition /\ [][NextStages]_vars

(* --------------------- claims about the stages of fit ------------------ *)
\* C11: a fit whose max_iter is not a number or is negative raises at its
\* first statement: the step changes no fitted attribute and no
\* hyperparameter, and when the error is raised check_X_y has not run, the
\* random source is neither instantiated nor drawn from, and init_tensorflow
\* has not run; none of these ever happens under an invalid max_iter.
C11_InvalidMaxIterFailsFirst ==
    /\ [][(pc = "call" /\ (~max_iter_is_number \/ max_iter < 0))
            => /\ pc' = "raised"
               /\ fit_error' = "ValueError: max_iter"
               /\ UNCHANGED <<fitted_vars, n_epochs_, n_samples_, histories_,
                              get_params, validated, tf_sessions, draws,
                              data_vars>>]_vars
    /\ [](fit_error = "ValueError: max_iter" =>
            /\ pc = "raised"
            /\ ~validated
            /\ tf_sessions = 0
            /\ draws = <<>>
            /\ random_state # "RandomState"
            /\ get_params = params_at_call
            /\ datasets_ = <<>> /\ classes_list_ = <<>> /\ models_ = <<>>
            /\ n_epochs_ = <<>>)
    /\ []((validated \/ tf_sessions > 0 \/ random_state = "RandomState"
             \/ draws # <<>> \/ datasets_ # <<>>)
          => (max_iter_is_number /\ max_iter >= 0))

\* a negative max_iter on an X that check_X_y would refuse, in simple mode
\* with fine_tune asked: the error is that of max_iter
C11_Witness ==
    /\ pc = "raised"
    /\ fit_error = "ValueError: max_iter"
    /\ max_iter_is_number /\ max_iter < 0
    /\ ~X_valid
    /\ latent_dim = <<>> /\ fine_tune

PartitionDone == pc \in {"build", "shuffle"}

\* C12: after the partitioning step datasets_ is ascending, every row of X
\* is in the subset of its dataset id once and in no other subset, every
\* subset keeps the order of X, the binarized labels of a subset are those
\* of its rows in the same order, and the subsets concatenated in the order
\* of datasets_ hold every row of X exactly once.
C12_PartitionKeepsRows ==
    PartitionDone =>
        /\ \A a, b \in DOMAIN datasets_ : a < b => datasets_[a] < datasets_[b]
        /\ \A r \in DOMAIN fit_datasets :
              \E k \in DOMAIN X_list :
                  /\ datasets_[k] = fit_datasets[r]
                  /\ CountOf(X_list[k], r) = 1
                  /\ \A j \in DOMAIN X_list :
                        j # k => CountOf(X_list[j], r) = 0
        /\ \A k \in DOMAIN X_list :
              /\ \A a, b \in DOMAIN X_list[k] :
                    a < b => X_list[k][a] < X_list[k][b]
              /\ y_bin_list[k] =
                    LabelBinarize([p \in DOMAIN X_list[k] |->
                                      fit_y[X_list[k][p]]])
        /\ Len(NpConcatenate(X_list)) = Len(fit_datasets)
        /\ \A r \in DOMAIN fit_datasets :
              CountOf(NpConcatenate(X_list), r) = 1

\* three rows of datasets 1, 0, 1 with different labels
C12_Witness ==
    /\ PartitionDone
    /\ fit_datasets = <<1, 0, 1>>
    /\ X_list = <<(<<2>>), (<<1, 3>>)>>
    /\ fit_y[1] # fit_y[3]

\* C13 (as claimed): once a head has been fine-tuned, the layer made
\* untrainable is the shared encoder, the layer whose rate was set to 0 is
\* the dropout layer if there is one and no layer otherwise, and no
\* fine-tuning fit has moved the encoder's weights.
C13_EncoderFrozen ==
    ft_fits # <<>> =>
        /\ layer_trainable = {"encoded"}
        /\ layer_rate = IF dropout > 0 THEN {"dropout"} ELSE {}
        /\ encoder_updates = 0

FineTuneAsked == params_at_call[6]

BeforeBuild ==
    pc \in {"call", "check_X_y", "check_random_state", "partition", "build",
            "raised"}

\* C14: a fit that returns has fine-tuned (every head once) exactly when
\* latent_dim is not None and fine_tune was asked; in simple mode fine_tune
\* is False from model construction on, the only errors are those of the
\* input checks, no fine-tuning fit and no learning-rate cut is made, and
\* every model gets one update per tick of the loop, whose number of ticks
\* without early stopping is fixed by max_iter and the batches per epoch.
C14_FineTuneOnlyFactored ==
    /\ [](pc = "returned" =>
            /\ ft_fits # <<>> <=> (latent_dim # <<>> /\ FineTuneAsked)
            /\ ft_fits # <<>> => Len(ft_fits) = n_datasets)
    /\ [](pc = "fine_tune" => (latent_dim # <<>> /\ FineTuneAsked))
    /\ []((latent_dim = <<>> /\ ~BeforeBuild) => ~fine_tune)
    /\ [](latent_dim = <<>> =>
            /\ fit_error \in {"none", "ValueError: max_iter",
                               "ValueError: check_X_y"}
            /\ ft_fits = <<>>
            /\ \A k \in DOMAIN lr_tenths : lr_tenths[k] = 0)
    /\ []((latent_dim = <<>> /\ pc = "returned") =>
            /\ \A k \in Idx : n_updates[k] = ticks
            /\ ~(do_validation /\ early_stop) =>
                  ticks = IF max_iter = 0 THEN 0
                          ELSE max_iter * MaxBatchesPerEpoch + 1)

\* simple mode, fine_tune asked: fit returns after its loop, not fine-tuned
C14_Witness ==
    /\ pc = "returned"
    /\ latent_dim = <<>>
    /\ FineTuneAsked /\ ~fine_tune
    /\ fit_error = "none"
    /\ ft_fits = <<>>
    /\ n_datasets = 2
    /\ ticks >= 2

\* C15 (as claimed): every fine-tuning fit has an EarlyStopping tracker and
\* runs at most max_iter epochs when there is validation data, and runs
\* exactly 30 epochs when there is none.
C15_TrackerWheneverValidation ==
    \A f \in DOMAIN ft_fits :
        /\ do_validation =>
              /\ ft_fits[f].callbacks = "EarlyStopping"
              /\ ft_fits[f].epochs_run <= max_iter
        /\ ~do_validation => ft_fits[f].epochs_run = fallback_epochs

\* C15 (amended): the heads are fine-tuned once each, in order. With
\* validation data and early_stop the fit has a new EarlyStopping tracker
\* and runs at most max_iter epochs, fewer only after more than patience
\* epochs; with validation data and early_stop off it has no tracker and
\* runs exactly max_iter epochs; without validation data it has neither
\* validation data nor tracker and runs exactly 30 epochs.
C15_TrackerWhenEarlyStop ==
    \A f \in DOMAIN ft_fits :
        /\ ft_fits[f].model = f
        /\ ft_fits[f].validation = do_validation
        /\ (do_validation /\ early_stop) =>
              /\ ft_fits[f].callbacks = "EarlyStopping"
              /\ ft_fits[f].epochs = max_iter
              /\ ft_fits[f].epochs_run <= max_iter
              /\ ft_fits[f].epochs_run < max_iter =>
                    ft_fits[f].epochs_run > patience
        /\ (do_validation /\ ~early_stop) =>
              /\ ft_fits[f].callbacks = "None"
              /\ ft_fits[f].epochs_run = max_iter
        /\ ~do_validation =>
              /\ ft_fits[f].callbacks = "None"
              /\ ft_fits[f].epochs_run = fallback_epochs

\* validation data and early_stop: the tracker ends the fit of head 1
\* before max_iter epochs, the fit of head 2 runs them all
C15_Witness ==
    /\ pc = "returned"
    /\ do_validation /\ early_stop
    /\ Len(ft_fits) = 2
    /\ ft_fits[1].epochs_run < max_iter
    /\ ft_fits[2].epochs_run = max_iter

\* C17 (as claimed): once the models are built, every row of the target
\* matrix of a dataset has as many columns as the dataset has classes,
\* which is the number of outputs of its head.
C17_TargetWidthIsClassCount ==
    pc \in {"shuffle", "while"} =>
        \A k \in DOMAIN y_bin_list :
            \A p \in DOMAIN y_bin_list[k] :
                /\ Len(y_bin_list[k][p]) = Len(classes_list_[k])
                /\ Len(y_bin_list[k][p]) = models_[k]

(* ------------------- the shuffle buffers of a fit ---------------------- *)
\* fit(X, y) without validation data on any rows of X, every sample with a
\* label of its own, so that a row of labels identifies its sample
InitShuffle ==
    /\ CallStart
    /\ max_iter_is_number = TRUE
    /\ max_iter = 2
    /\ batch_size \in 1..MaxBatchSize
    /\ do_validation = FALSE
    /\ early_stop = FALSE
    /\ fine_tune = FALSE
    /\ latent_dim = <<1>>
    /\ dropout = 0
    /\ random_state = "seed"
    /\ X_valid = TRUE
    /\ \E n \in 1..MaxShuffleRows :
          /\ fit_datasets \in [1..n -> 0..MaxId]
          /\ fit_y = [r \in 1..n |-> ClassLabel(fit_datasets[r], r)]
    /\ params_at_call = get_params
    /\ val_datasets = <<>>
    /\ val_y = <<>>

NextShuffle == NextStages \/ NextFit

SpecShuffle == InitShuffle /\ [][NextShuffle]_vars

\* the partition of dataset k as the partitioning step made it
OriginalX(k) == SelectRows(fit_datasets, datasets_[k])

OriginalYBin(k) == LabelBinarize(ThisY(fit_datasets, fit_y, datasets_[k]))

\* the start-up shuffle has run
Shuffled == pc \in {"while", "for", "done"}

\* C22: after the start-up shuffle and after any number of reshuffles, the
\* feature buffer and the label buffer of every dataset are the same
\* permutation of its original partition (row p of both is the same original
\* sample, none lost or duplicated), and a reshuffle of dataset i leaves the
\* buffers, the batch cursor and the epoch counter of every other dataset
\* unchanged.
C22_BuffersSamePermutation ==
    /\ [](Shuffled =>
            \A k \in Idx :
                \E perm \in Perms(Len(OriginalX(k))) :
                    /\ X_list[k] =
                          [p \in DOMAIN OriginalX(k) |-> OriginalX(k)[perm[p]]]
                    /\ y_bin_list[k] =
                          [p \in DOMAIN OriginalX(k) |->
                              OriginalYBin(k)[perm[p]]])
    /\ [][(pc = "for" /\ Shuffled') =>
            \A k \in Idx :
                k # i =>
                   /\ X_list'[k] = X_list[k]
                   /\ y_bin_list'[k] = y_bin_list[k]
                   /\ batches_list'[k] = batches_list[k]
                   /\ n_epochs'[k] = n_epochs[k]]_vars

\* a dataset of one row beside one of two rows, both reshuffled at two
\* epoch boundaries or more, the second now in another order than the
\* partition's
C22_Witness ==
    /\ pc = "while"
    /\ n_datasets = 2
    /\ n_samples_ = <<1, 2>>
    /\ n_epochs[1] >= 2
    /\ n_epochs[2] >= 2
    /\ X_list[2] # OriginalX(2)
    /\ y_bin_list[2] # OriginalYBin(2)

(* ---------------------- fit on a fitted estimator ---------------------- *)
\* fit(X, y) without validation data on one row of each of the datasets
\* 0..d-1, with any latent_dim, fine_tune, dropout and random_state
InitRefit ==
    /\ CallStart
    /\ max_iter_is_number = TRUE
    /\ max_iter = 1
    /\ batch_size = 1
    /\ do_validation = FALSE
    /\ early_stop = FALSE
    /\ fine_tune \in BOOLEAN
    /\ latent_dim \in {<<>>, <<1>>}
    /\ dropout \in {0, 5}
    /\ random_state \in {"None", "seed"}
    /\ X_valid = TRUE
    /\ \E d \in 1..MaxDatasets :
          /\ fit_datasets = [r \in 1..d |-> r - 1]
          /\ fit_y = [r \in 1..d |-> ClassLabel(r - 1, 1)]
    /\ params_at_call = get_params
    /\ val_datasets = <<>>
    /\ val_y = <<>>

\* fit has returned and the caller calls it again on the same estimator with
\* the same X and y, after set_params(latent_dim=...) or without it: the
\* attributes of the estimator are what the last fit left, the locals of fit
\* are new
Refit ==
    /\ pc = "returned"
    /\ tf_sessions < MaxFits
    /\ pc' = "call"
    /\ latent_dim' \in {<<>>, <<1>>}
    /\ params_at_call' = [params_at_call EXCEPT ![5] = latent_dim']
    /\ i' = 1
    /\ n_epochs' = <<>>
    /\ batches_list' = <<>>
    /\ stop_training' = FALSE
    /\ model_stop_training' = <<>>
    /\ es_wait' = <<>>
    /\ ticks' = 0
    /\ n_updates' = <<>>
    /\ visited' = <<>>
    /\ boundary_trained' = <<>>
    /\ signalled' = <<>>
    /\ signalled_tick' = <<>>
    /\ history_begun' = FALSE
    /\ draws' = <<>>
    /\ last_boundary' = <<>>
    /\ validated' = FALSE
    /\ X_list' = <<>>
    /\ y_bin_list' = <<>>
    /\ layers_by_depth' = <<>>
    /\ layer_trainable' = {}
    /\ layer_rate' = {}
    /\ lr_tenths' = <<>>
    /\ encoder_updates' = 0
    /\ ft_fits' = <<>>
    /\ y_bin_val_list' = <<>>
    /\ UNCHANGED <<outside_fit, config_vars, fitted_vars, n_samples_, n_epochs_,
                   histories_, max_iter_is_number, random_state, fine_tune,
                   dropout, X_valid, fit_datasets, fit_y, fit_error,
                   tf_sessions, val_datasets, val_y>>

NextRefit == NextCall \/ Refit

SpecRefit == InitRefit /\ [][NextRefit]_vars

\* C24 (as claimed): a fit that has returned leaves the hyperparameters as
\* the caller set them; every fit, a second one on the same estimator
\* included, hands check_random_state the random_state the caller set, so
\* that it replays the same permutations; and every fit that returns in
\* factored mode with fine_tune=True requested, a fit after one in simple
\* mode included, has fine-tuned every head.
C24_HyperparametersKept ==
    /\ pc = "returned" => get_params = params_at_call
    /\ pc = "check_random_state" => random_state = params_at_call[8]
    /\ (pc = "returned" /\ latent_dim # <<>> /\ FineTuneAsked)
          => Len(ft_fits) = n_datasets

(* ----------------- the labels of score and of validation --------------- *)
\* fit(X, y, validation_data) on the datasets 0..d-1, each with MaxLabels
\* classes and one row per class, and validation data of 1..MaxEncRows rows
\* of these datasets, labelled with classes of their dataset
InitValidation ==
    /\ CallStart
    /\ max_iter_is_number = TRUE
    /\ max_iter = 0
    /\ batch_size = 1
    /\ do_validation = TRUE
    /\ early_stop = FALSE
    /\ fine_tune = FALSE
    /\ latent_dim = <<1>>
    /\ dropout = 0
    /\ random_state = "seed"
    /\ X_valid = TRUE
    /\ \E d \in 1..MaxDatasets :
          /\ fit_datasets = [r \in 1..(d * MaxLabels) |-> (r - 1) \div MaxLabels]
          /\ fit_y = [r \in 1..(d * MaxLabels) |->
                        ClassLabel((r - 1) \div MaxLabels,
                                   ((r - 1) % MaxLabels) + 1)]
          /\ \E n \in 1..MaxEncRows :
             \E c \in [1..n -> 1..MaxLabels] :
                /\ val_datasets \in [1..n -> 0..(d - 1)]
                /\ val_y = [k \in 1..n |-> ClassLabel(val_datasets[k], c[k])]
    /\ params_at_call = get_params

\* score(X, y) on a fitted estimator, for a valid X, y of 1..MaxEncRows rows
\* with any labels
ScoreAnyLabels ==
    /\ op = "none"
    /\ pc = "idle"
    /\ \E n \in 1..MaxEncRows :
       \E X \in [1..n -> 0..MaxId] :
       \E c \in [1..n -> 1..MaxClasses] :
       \E correct \in [1..n -> BOOLEAN] :
          ScoreCall(X, [k \in 1..n |-> ClassLabel(X[k], c[k])], correct)

\* a fit with validation data up to the construction of its models, or
\* calls of score on a fitted estimator
InitEncode == InitValidation \/ InitPredict

NextEncode ==
    \/ FitCheckMaxIter
    \/ FitCheckXY
    \/ FitRandomState
    \/ FitPartition
    \/ FitBuildModels
    \/ ScoreAnyLabels
    \/ Return

SpecEncode == InitEncode /\ [][NextEncode]_vars

\* the rows that the binarizer fitted on the recorded classes gives the
\* labels of this_y: the row of a label is the row it has among the classes
EncodeWith(classes, this_y) ==
    LET ref == LabelBinarize(classes)
    IN [p \in DOMAIN this_y |->
          ref[CHOOSE c \in DOMAIN classes : classes[c] = this_y[p]]]

\* every row of a fitted dataset has a label of that dataset's class set
LabelsKnown(ids, y) ==
    \A k \in DOMAIN ids :
        ids[k] \in FittedIds => y[k] \in Range(classes_list_[PositionOf(ids[k])])

\* C21 (as claimed): score encodes the labels of every fitted dataset with
\* the class set recorded for it at fit time, also when the rows scored hold
\* some of its classes only or none of its rows, and so does fit for the
\* validation rows of every dataset: the target is the one the recorded
\* classes give, column for column.
C21_EncodedByRecordedClasses ==
    /\ (op = "score" /\ LabelsKnown(X_datasets, score_y)) =>
          /\ error = "none"
          /\ Len(score_targets) = Len(datasets_)
          /\ \A p \in DOMAIN datasets_ :
                score_targets[p] =
                   EncodeWith(classes_list_[p],
                              ThisY(X_datasets, score_y, datasets_[p]))
    /\ (do_validation /\ pc # "idle" /\ datasets_ # <<>>) =>
          /\ fit_error = "none"
          /\ Len(y_bin_val_list) = Len(datasets_)
          /\ \A p \in DOMAIN datasets_ :
                y_bin_val_list[p] =
                   EncodeWith(classes_list_[p],
                              ThisY(val_datasets, val_y, datasets_[p]))

(* ------------------------- Projector.transform ------------------------- *)
\* a Projector of any n_jobs, in a process whose pool has any width
InitProjector ==
    /\ FitIdle
    /\ ParamsIdle
    /\ StagesIdle
    /\ datasets_ = <<>>
    /\ classes_list_ = <<>>
    /\ models_ = <<>>
    /\ legacy_bool_index = FALSE
    /\ NoCall
    /\ mkl_max_threads \in 1..MaxThreads
    /\ projector_n_jobs \in 1..MaxThreads
    /\ proj_pc = "idle"
    /\ current_n_threads = 0
    /\ proj_error = "none"
    /\ threads_before = 0

\* current_n_threads = mkl.get_max_threads(); mkl.set_num_threads(self.n_jobs)
TransformBegin ==
    /\ proj_pc = "idle"
    /\ current_n_threads' = mkl_max_threads
    /\ threads_before' = mkl_max_threads
    /\ mkl_max_threads' = projector_n_jobs
    /\ proj_error' = "none"
    /\ proj_pc' = "lstsq"
    /\ UNCHANGED <<projector_n_jobs, proj_frame>>

\* loadings, _, _, _ = lstsq(self.basis.T, X.T): returns, or raises (shapes
\* that do not match, values that are not finite, no convergence) and the
\* exception leaves transform at once
Lstsq ==
    /\ proj_pc = "lstsq"
    /\ \E raises \in BOOLEAN :
          /\ proj_pc' = IF raises THEN "idle" ELSE "restore"
          /\ proj_error' = IF raises THEN "ValueError" ELSE "none"
          /\ current_n_threads' = IF raises THEN 0 ELSE current_n_threads
    /\ UNCHANGED <<mkl_max_threads, projector_n_jobs, threads_before,
                   proj_frame>>

\* mkl.set_num_threads(current_n_threads); return loadings.T
TransformRestore ==
    /\ proj_pc = "restore"
    /\ mkl_max_threads' = current_n_threads
    /\ current_n_threads' = 0
    /\ proj_pc' = "idle"
    /\ UNCHANGED <<projector_n_jobs, proj_error, threads_before, proj_frame>>

NextProjector == TransformBegin \/ Lstsq \/ TransformRestore

SpecProjector == InitProjector /\ [][NextProjector]_vars

\* C16 (as claimed): when a call of transform has ended, by return or by an
\* exception of lstsq, the pool has the width it had when the call began.
C16_ThreadsRestored ==
    (proj_pc = "idle" /\ threads_before # 0)
        => mkl_max_threads = threads_before

====
